---- MODULE Spec2Model ----
(***************************************************************************)
(* Model of the logl tailer pipeline and its ingestion server.             *)
(*                                                                         *)
(*   Watcher (one task per file)  -> lineChan -> Batcher -> Client         *)
(*        -> Handler.IngestLogs -> Storage.InsertBatch                     *)
(*                                                                         *)
(* A file is a growing sequence of complete lines; offsets are counted in  *)
(* lines (offset k = the byte position right after line k).  A log entry   *)
(* is [file, idx, ln]: idx is the position of the line in the file (it     *)
(* stands for the line's text) and ln is the LineNumber field.             *)
(***************************************************************************)
EXTENDS Integers, Sequences, FiniteSets, TLC

\* ---------------------------------------------------------------- bounds
\* Configuration values are fields of the program's objects (cfg below); the
\* definitions here are the values the specifications give them.
WLines      == 2      \* lines per file, WRestarts, WQueueSize: the Watcher studied
WRestarts   == 1
WQueueSize  == 1
BLines      == 2      \* the Batcher studied
BQueueSize  == 2
BMaxSize    == 2
BMaxWait    == 2
BTime       == 4
CLines      == 2      \* the Client studied
CMaxRetries == 1
CThreshold  == 2
CTimeout    == 2
CTime       == 3
CQueueSize  == 1
CMaxSize    == 1
PLines      == 1      \* the whole pipeline
PRestarts   == 1
PTime       == 2
PQueueSize  == 1
PMaxSize    == 1
EThreshold  == 2      \* calls spaced by the breaker's timeout
ETimeout    == 1
ETime       == 3
DLines      == 2      \* one run up to its shutdown
DTime       == 1
DMaxWait    == 1
TMaxSize    == 4      \* the 250-line scenario, scaled: maxSize, queue, clock
TQueueSize  == 6
TTime       == 3
KAttempts   == 3      \* the backoff studied: highest attempt index
RLines      == 1      \* rotation studied: lines per file, restarts
RRestarts   == 1
SIdLen      == 2      \* the server studied: length of a service name,
SKeys       == 2      \* distinct events, requests handled
SRequests   == 2

Files    == {"f1", "f2"}

\* The names an entry can carry, which are the keys b.batches can get: the
\* names of the configuration, and "" (the value of w.serviceNames[filepath]
\* when there is no name for the path).
Services == {"", "a", "b"}

\* Service names of the configuration: one service per file, or one
\* service with both files.
OneServicePerFile == [f \in Files |-> IF f = "f1" THEN "a" ELSE "b"]

OneServiceForAll == [f \in Files |-> "a"]

\* main hands the one service_name of the configuration to the Watcher for
\* all the enabled files.
ServiceNames(name) == [f \in Files |-> name]

ValidatedAlways(name) == TRUE

\* LoadTailerConfig: if config.ServiceName == "" { return nil, error }
Validated(name) == name # ""

NoState == -1         \* no FileState for the path in the map
ZeroTime == -100      \* the zero time.Time: long before the clock starts

VARIABLES
    cfg,          \* the configuration the objects were constructed with
    lim,          \* the limits of the scenario: lines per file, clock, restarts
    \* ---- the file system
    fileLen,      \* [Files -> Nat]   lines in the file
    disk,         \* [Files -> Int]   the state file: saved offset, or NoState
    \* ---- process-wide
    ctxDone,      \* the context is cancelled
    now,          \* the clock
    restarts,     \* restarts so far
    \* ---- Watcher
    wPc,          \* Watcher.Start: "init", "running", "done"
    saverPc,      \* stateSaver goroutine: "off", "run", "done"
    wstate,       \* w.state: [Files -> Int]   offset, or NoState
    taskPc,       \* tailFile: "off", "open", "recv", "send", "done"
    tailPos,      \* lines of the file the task has received from t.Lines
    lineNumber,   \* tailFile's lineNumber
    \* ---- Batcher
    lineChan,     \* b.lineChan: Seq(entry)
    batches,      \* b.batches: [Services -> Seq(entry)]
    bPc,          \* Batcher.Start: "select", "flush", "sending", "done"
    bMode,        \* why a flush runs: "none", "size", "timer", "final"
    bTodo,        \* flush(): services still to visit
    bCur,         \* batchToSend of the SendBatch call in progress
    tickPending,  \* a tick waits in ticker.C
    tickAt,       \* when the ticker fires next
    \* ---- Client
    cPc,          \* SendBatch: "idle", "check", "attempt", "wait"
    attempt,      \* retry.Do's attempt
    cbFailures,   \* cb.failures
    cbLastFail,   \* cb.lastFailure
    \* ---- Server
    persisted,    \* documents in MongoDB: set of <<collection, [file, idx]>>
    srv,          \* the server studied on its own: database and last request
    calls,        \* SendBatch calls racing on the breaker: [pc, attempt, res]
    \* ---- history (not program state)
    hist          \* record of observations, see HistInit

vars == << cfg, lim, srv, calls, fileLen, disk, ctxDone, now, restarts, wPc, saverPc, wstate, taskPc,
           tailPos, lineNumber, lineChan, batches, bPc, bMode, bTodo, bCur,
           tickPending, tickAt, cPc, attempt, cbFailures, cbLastFail,
           persisted, hist >>

\* outside the process's memory, or studied on their own
outerVars   == << cfg, lim, srv, calls, fileLen, disk >>
watcherVars == << wPc, saverPc, wstate, taskPc, tailPos, lineNumber >>
batcherVars == << batches, bPc, bMode, bTodo, bCur, tickPending, tickAt >>
clientVars  == << cPc, attempt, cbFailures, cbLastFail >>

\* mongodb.ttl_days, its default
TtlDays == 30

\* time.Second, and the steps in which a jitter is drawn
Second == 16

JitterSteps == 4

\* w.serviceNames: file path -> service name
ServiceOf(f) == cfg.serviceNames[f]

Entry(f, i, n) == [file |-> f, idx |-> i, ln |-> n]
Doc(e)         == [file |-> e.file, idx |-> e.idx]
SeqToSet(s)    == { s[i] : i \in 1..Len(s) }

\* ------------------------------------------------------------ history
\* loaded[f]     what loadState found for f when this process started
\* openLen[f]    lines in f when this process opened it without a FileState
\* sessStart[f]  tail position at which this process opened f
\* dropped[f]    the task dropped the line it received last
\* atCancel      entries in lineChan or in a buffer when cancel() was called
\* handed        entries passed to sender.SendBatch by this process
\* bufSince[s]   clock value at which batches[s] became non-empty
\* callOpen      the breaker was OPEN when the current/last SendBatch began
\* callTries     sendRequest invocations of the current/last SendBatch
\* callRes       outcome of the last SendBatch: "none", "ok", "err"
\* ctxErr        the error the last SendBatch returned is ctx.Err()
\* failedRun     SendBatch calls that failed in a row before the current one
\*               (kept by CallSpaced only)
\* callAtLimit   cb.failures had reached the threshold when SendBatch was called
\* resp          status of the last response seen by sendRequest (0: none)
\* rotated[f]    the file at the path was replaced since this process began
\* sentAs        batchToSend.ServiceName of the batch handed over last
\* backoff       the last calculateBackoff: attempt, jitter drawn, wait returned
HistInit ==
    [ loaded    |-> [f \in Files |-> NoState],
      openLen   |-> [f \in Files |-> 0],
      sessStart |-> [f \in Files |-> 0],
      dropped   |-> [f \in Files |-> FALSE],
      atCancel  |-> {},
      handed    |-> {},
      bufSince  |-> [s \in Services |-> 0],
      callOpen  |-> FALSE,
      callTries |-> 0,
      callRes   |-> "none",
      ctxErr    |-> FALSE,
      failedRun |-> 0,
      callAtLimit |-> FALSE,
      resp      |-> 0,
      rotated   |-> [f \in Files |-> FALSE],
      sentAs    |-> "",
      backoff   |-> [attempt |-> -1, jitter |-> 0, wait |-> 0] ]

\* ------------------------------------------------------------ server state
\* docs         the documents in MongoDB: [coll, src, key, oid]
\*                coll  name of the collection
\*                src   service_name of the batch that brought the event
\*                key   the event (its file, line and text)
\*                oid   the _id: the event's own when it carries one (then
\*                      equal to its key), a generated one (negative) otherwise
\* requests     requests handled so far
\* last         the last request: method, decodable body, service_name, entries
\* reply        the response to it: status, body status, received
\* stored       Storage.InsertBatch was invoked for the last request
\* ret          what InsertBatch returned: "none", "nil", "err"
\* indexes      the indexes of the collections: << collection, index name >>
\* dups, others the bulk write had duplicate-key failures / other failures
\* repeated     the last request brought the same batch as the one before,
\*              and InsertBatch returned nil for both
\* ident, collName, resolutions
\*              a service name, the collection name resolved for it, and how
\*              often it has been resolved
NoRequest == [method |-> "", decodable |-> FALSE, svc |-> << >>, entries |-> << >>]

NoReply == [status |-> 0, body |-> "", received |-> 0]

SrvInit ==
    [ docs     |-> {},
      requests |-> 0,
      last     |-> NoRequest,
      reply    |-> NoReply,
      stored   |-> FALSE,
      ret      |-> "none",
      indexes  |-> {},
      dups     |-> FALSE,
      others   |-> FALSE,
      repeated |-> FALSE,
      ident    |-> << >>,
      collName |-> << >>,
      resolutions |-> 0 ]

\* ------------------------------------------------------------ racing calls
\* Goroutines that call SendBatch on one Client at the same time.
Callers == {1, 2}

\* pc[c]       where caller c is in SendBatch: "idle", "check", "attempt", "wait"
\* attempt[c]  retry.Do's attempt of its call
\* res[c]      what its last call returned: "none", "ok", "err"
CallsInit ==
    [ pc      |-> [c \in Callers |-> "idle"],
      attempt |-> [c \in Callers |-> 0],
      res     |-> [c \in Callers |-> "none"] ]

\* ------------------------------------------------------------ process start
\* main(): NewClient, NewBatcher, NewWatcher; nothing runs yet.
ProcessInit ==
    /\ ctxDone = FALSE
    /\ wPc = "init"
    /\ saverPc = "off"
    /\ wstate = [f \in Files |-> NoState]
    /\ taskPc = [f \in Files |-> "off"]
    /\ tailPos = [f \in Files |-> 0]
    /\ lineNumber = [f \in Files |-> 0]
    /\ lineChan = << >>
    /\ batches = [s \in Services |-> << >>]
    /\ bPc = "select"
    /\ bMode = "none"
    /\ bTodo = {}
    /\ bCur = << >>
    /\ tickPending = FALSE
    /\ tickAt = cfg.maxWait
    /\ cPc = "idle"
    /\ attempt = 0
    /\ cbFailures = 0
    /\ cbLastFail = ZeroTime   \* the zero time.Time: long ago
    /\ hist = HistInit

\* The values every specification starts from, whatever it studies.
Boot(c, l) ==
    /\ cfg = c
    /\ lim = l
    /\ disk = [f \in Files |-> NoState]
    /\ now = 0
    /\ restarts = 0
    /\ persisted = {}
    /\ srv = SrvInit
    /\ calls = CallsInit
    /\ ProcessInit

\* ------------------------------------------------------------ environment
\* The application appends one line to a log file.
AppendLine(f) ==
    /\ fileLen[f] < lim.lines
    /\ fileLen' = [fileLen EXCEPT ![f] = @ + 1]
    /\ UNCHANGED << cfg, lim, srv, calls, disk, ctxDone, now, restarts, watcherVars, lineChan,
                    batcherVars, clientVars, persisted, hist >>

\* Rename-based rotation while no task has the file open (the tailer is
\* down or has not opened its files yet): the file is renamed away and a
\* fresh, empty file is created at the same path.
Rotate(f) ==
    /\ wPc = "init"
    /\ ~hist.rotated[f]
    /\ fileLen' = [fileLen EXCEPT ![f] = 0]
    /\ hist' = [hist EXCEPT !.rotated[f] = TRUE]
    /\ UNCHANGED << cfg, lim, srv, calls, disk, ctxDone, now, restarts, watcherVars, lineChan,
                    batcherVars, clientVars, persisted >>

\* SIGINT/SIGTERM: main's signal goroutine calls cancel().
Cancel ==
    /\ ~ctxDone
    /\ ctxDone' = TRUE
    /\ hist' = [hist EXCEPT !.atCancel =
                    SeqToSet(lineChan) \cup
                    UNION { SeqToSet(batches[s]) : s \in Services }]
    /\ UNCHANGED << outerVars, now, restarts, watcherVars, lineChan, batcherVars,
                    clientVars, persisted >>

\* ------------------------------------------------------------ Watcher
\* Watcher.Start up to the spawning of the goroutines: loadState reads the
\* state file into w.state, then the saver and one task per file start.
WatcherStart ==
    /\ wPc = "init"
    /\ wPc' = "running"
    /\ wstate' = disk
    /\ saverPc' = "run"
    /\ taskPc' = [f \in Files |-> "open"]
    /\ hist' = [hist EXCEPT !.loaded = disk]
    /\ UNCHANGED << outerVars, ctxDone, now, restarts, tailPos, lineNumber,
                    lineChan, batcherVars, clientVars, persisted >>

SeekLocationAlwaysEnd(f) == fileLen[f]

SeekLocationFromStart(f) == IF wstate[f] # NoState THEN wstate[f] ELSE 0

\* Where tail.TailFile starts reading: the saved offset when w.state has the
\* path (SEEK_SET), the end of the file otherwise (SEEK_END).
SeekLocation(f) == IF wstate[f] # NoState THEN wstate[f] ELSE fileLen[f]

\* tailFile up to its loop: configure and start the tail.
TaskOpen(f) ==
    /\ taskPc[f] = "open"
    /\ tailPos' = [tailPos EXCEPT ![f] = SeekLocation(f)]
    /\ lineNumber' = [lineNumber EXCEPT ![f] = 0]
    /\ taskPc' = [taskPc EXCEPT ![f] = "recv"]
    /\ hist' = [hist EXCEPT !.sessStart[f] = tailPos'[f],
                            !.openLen[f] = IF wstate[f] = NoState THEN fileLen[f] ELSE 0]
    /\ UNCHANGED << outerVars, ctxDone, now, restarts, wPc, saverPc, wstate,
                    lineChan, batcherVars, clientVars, persisted >>

NextLineNumberLate(f) == lineNumber[f]

\* The LineNumber the next entry gets: lineNumber++ before the entry is built.
NextLineNumber(f) == lineNumber[f] + 1

\* tailFile, case line := <-t.Lines: the next line of the file arrives, the
\* entry is built, and the task goes on to the inner select.
TaskRecv(f) ==
    /\ taskPc[f] = "recv"
    /\ tailPos[f] < fileLen[f]
    /\ tailPos' = [tailPos EXCEPT ![f] = @ + 1]
    /\ lineNumber' = [lineNumber EXCEPT ![f] = NextLineNumber(f)]
    /\ taskPc' = [taskPc EXCEPT ![f] = "send"]
    /\ hist' = [hist EXCEPT !.dropped[f] = FALSE]
    /\ UNCHANGED << outerVars, ctxDone, now, restarts, wPc, saverPc, wstate,
                    lineChan, batcherVars, clientVars, persisted >>

\* The tail (Poll: true, ReOpen: true) finds the file shorter than the
\* position it was told to seek to and starts over at the beginning.
TailTruncated(f) ==
    /\ taskPc[f] = "recv"
    /\ tailPos[f] > fileLen[f]
    /\ tailPos' = [tailPos EXCEPT ![f] = 0]
    /\ hist' = [hist EXCEPT !.sessStart[f] = 0]
    /\ UNCHANGED << outerVars, ctxDone, now, restarts, wPc, saverPc, wstate,
                    taskPc, lineNumber, lineChan, batcherVars, clientVars,
                    persisted >>

\* The entry the task holds while it is in the inner select.
Pending(f) == Entry(f, tailPos[f], lineNumber[f])

\* What t.Tell() can return after line tailPos[f] was received: the tail
\* goroutine hands lines over an unbuffered channel, so it is positioned
\* after that line, or after the next one when it has already read it.
TellOffsets(f) ==
    {tailPos[f]} \cup (IF tailPos[f] < fileLen[f] THEN {tailPos[f] + 1} ELSE {})

\* updateState: w.state[filepath] = &FileState{Offset: offset}
UpdateState(f, offset) == wstate' = [wstate EXCEPT ![f] = offset]

\* Inner select, case w.lineChan <- entry; then Tell and updateState.
TaskEnqueue(f) ==
    /\ taskPc[f] = "send"
    /\ Len(lineChan) < cfg.queueSize
    /\ lineChan' = Append(lineChan, Pending(f))
    /\ \E off \in TellOffsets(f) : UpdateState(f, off)
    /\ taskPc' = [taskPc EXCEPT ![f] = "recv"]
    /\ UNCHANGED << outerVars, ctxDone, now, restarts, wPc, saverPc, tailPos,
                    lineNumber, batcherVars, clientVars, persisted, hist >>

TaskDropNoTimeout(f) ==
    /\ FALSE
    /\ UNCHANGED vars

\* Inner select, case <-time.After(5 * time.Second): the queue stayed full,
\* the line is dropped with a warning; then Tell and updateState.
TaskDrop(f) ==
    /\ taskPc[f] = "send"
    /\ Len(lineChan) >= cfg.queueSize
    /\ \E off \in TellOffsets(f) : UpdateState(f, off)
    /\ taskPc' = [taskPc EXCEPT ![f] = "recv"]
    /\ hist' = [hist EXCEPT !.dropped[f] = TRUE]
    /\ UNCHANGED << outerVars, ctxDone, now, restarts, wPc, saverPc, tailPos,
                    lineNumber, lineChan, batcherVars, clientVars, persisted >>

\* case <-ctx.Done() of the outer or of the inner select: return ctx.Err().
TaskStop(f) ==
    /\ taskPc[f] \in {"recv", "send"}
    /\ ctxDone
    /\ taskPc' = [taskPc EXCEPT ![f] = "done"]
    /\ UNCHANGED << outerVars, ctxDone, now, restarts, wPc, saverPc, wstate,
                    tailPos, lineNumber, lineChan, batcherVars, clientVars,
                    persisted, hist >>

SaveStateNone == UNCHANGED disk

\* saveState: the whole map is written to the state file.
SaveState == disk' = [f \in Files |-> wstate[f]]

\* stateSaver, case <-ticker.C (every 10 s).
SaverTick ==
    /\ saverPc = "run"
    /\ SaveState
    /\ UNCHANGED << cfg, lim, srv, calls, fileLen, ctxDone, now, restarts, watcherVars, lineChan,
                    batcherVars, clientVars, persisted, hist >>

\* stateSaver, case <-ctx.Done().
SaverStop ==
    /\ saverPc = "run"
    /\ ctxDone
    /\ saverPc' = "done"
    /\ UNCHANGED << outerVars, ctxDone, now, restarts, wPc, wstate, taskPc,
                    tailPos, lineNumber, lineChan, batcherVars, clientVars,
                    persisted, hist >>

\* Watcher.Start after wg.Wait(): the final saveState, then return.
WatcherFinish ==
    /\ wPc = "running"
    /\ \A f \in Files : taskPc[f] = "done"
    /\ SaveState
    /\ wPc' = "done"
    /\ UNCHANGED << cfg, lim, srv, calls, fileLen, ctxDone, now, restarts, saverPc, wstate, taskPc,
                    tailPos, lineNumber, lineChan, batcherVars, clientVars,
                    persisted, hist >>

\* ------------------------------------------------------------ Batcher
BatchService(batch) == ServiceOf(batch[1].file)

ClearedKeepsEntries(buf) == buf

\* b.batches[serviceName] = b.batches[serviceName][:0]
Cleared(buf) == << >>

\* flushService after its guard: copy the buffer into batchToSend, clear the
\* buffer, and call sender.SendBatch (the Batcher goroutine blocks in it).
BeginSend(s, buf) ==
    /\ bCur' = buf
    /\ batches' = [batches EXCEPT ![s] = Cleared(buf)]
    /\ bPc' = "sending"
    /\ cPc' = "check"

\* flushService's guard: nothing to do for a missing or empty buffer.
FlushServiceSkips(s) == batches[s] = << >>

ShouldFlushAbove(buf) == Len(buf) > cfg.maxSize

\* shouldFlush := len(b.batches[serviceName]) >= b.maxSize
ShouldFlush(buf) == Len(buf) >= cfg.maxSize

BufferKeyDefault(e) == "a"

\* serviceName := entry.ServiceName, which tailFile took from w.serviceNames
BufferKey(e) == ServiceOf(e.file)

AppendedTwice(buf, e) == buf \o << e, e >>

Prepended(buf, e) == << e >> \o buf

\* b.batches[serviceName] = append(b.batches[serviceName], entry)
Appended(buf, e) == Append(buf, e)

\* Start, case entry := <-b.lineChan: append to the service's buffer and, at
\* the size threshold, flushService(serviceName).
BatcherRecv ==
    /\ bPc = "select"
    /\ lineChan # << >>
    /\ LET e   == Head(lineChan)
           s   == BufferKey(e)
           buf == Appended(batches[s], e)
       IN /\ lineChan' = Tail(lineChan)
          /\ IF ShouldFlush(buf)
               THEN /\ BeginSend(s, buf)
                    /\ bMode' = "size"
                    /\ hist' = [hist EXCEPT !.handed = @ \cup SeqToSet(buf),
                                            !.sentAs = s]
               ELSE /\ batches' = [batches EXCEPT ![s] = buf]
                    /\ hist' = [hist EXCEPT !.bufSince[s] =
                                   IF batches[s] = << >> THEN now ELSE @]
                    /\ UNCHANGED << bPc, bMode, bCur, cPc >>
    /\ UNCHANGED << outerVars, ctxDone, now, restarts, watcherVars, bTodo,
                    tickPending, tickAt, attempt, cbFailures, cbLastFail,
                    persisted >>

FlushKeysNone == {}

\* flush(): the services to visit are the keys of b.batches; visiting a key
\* whose buffer is empty does nothing.
FlushKeys == Services

\* Start, case <-ticker.C: flush(ctx).
BatcherTick ==
    /\ bPc = "select"
    /\ tickPending
    /\ tickPending' = FALSE
    /\ bMode' = "timer"
    /\ bTodo' = FlushKeys
    /\ bPc' = "flush"
    /\ UNCHANGED << outerVars, ctxDone, now, restarts, watcherVars, lineChan,
                    batches, bCur, tickAt, clientVars, persisted, hist >>

\* Start, case <-ctx.Done(): flush(ctx), then return ctx.Err().
BatcherCancel ==
    /\ bPc = "select"
    /\ ctxDone
    /\ bMode' = "final"
    /\ bTodo' = FlushKeys
    /\ bPc' = "flush"
    /\ UNCHANGED << outerVars, ctxDone, now, restarts, watcherVars, lineChan,
                    batches, bCur, tickPending, tickAt, clientVars, persisted,
                    hist >>

AfterFlushLoops == "select"

\* Where Start goes when flush(ctx) has returned.
AfterFlush == IF bMode = "final" THEN "done" ELSE "select"

\* flush's loop: flushService for the next service (map order is arbitrary);
\* when none is left flush returns nil.
FlushStep ==
    /\ bPc = "flush"
    /\ LET live == { s \in bTodo : ~FlushServiceSkips(s) }
       IN IF live = {}
            THEN /\ bPc' = AfterFlush
                 /\ bMode' = "none"
                 /\ bTodo' = {}
                 /\ UNCHANGED << batches, bCur, cPc, hist >>
            ELSE \E s \in live :
                 /\ BeginSend(s, batches[s])
                 /\ bTodo' = bTodo \ {s}
                 /\ hist' = [hist EXCEPT !.handed = @ \cup SeqToSet(batches[s]),
                                         !.sentAs = s]
                 /\ UNCHANGED bMode
    /\ UNCHANGED << outerVars, ctxDone, now, restarts, watcherVars, lineChan,
                    tickPending, tickAt, attempt, cbFailures, cbLastFail,
                    persisted >>

\* The Batcher when SendBatch has returned (err: it returned an error).
\* After a size flush: ticker.Reset(maxWait), back to the select.
\* Inside flush: the first error ends the loop and flush returns it.
AfterSend(err) ==
    /\ bCur' = << >>
    /\ IF bMode = "size"
         THEN /\ tickAt' = now + cfg.maxWait
              /\ bPc' = "select"
              /\ bMode' = "none"
              /\ UNCHANGED bTodo
         ELSE IF err
           THEN /\ bPc' = AfterFlush
                /\ bMode' = "none"
                /\ bTodo' = {}
                /\ UNCHANGED tickAt
           ELSE /\ bPc' = "flush"
                /\ UNCHANGED << bMode, bTodo, tickAt >>

\* ------------------------------------------------------------ Server
HandlerStatusNoCheck(svc, entries, dbOk) == IF ~dbOk THEN 500 ELSE 200

\* Handler.IngestLogs: the status it answers for a decoded batch
\* (dbOk: Storage.InsertBatch returns nil).
HandlerStatus(svc, entries, dbOk) ==
    IF Len(svc) = 0 THEN 400
    ELSE IF Len(entries) = 0 THEN 400
    ELSE IF ~dbOk THEN 500
    ELSE 200

\* Storage.InsertBatch, the write: every entry goes to the collection of
\* the batch's service.
InsertBatch(svc, entries) ==
    persisted' = persisted \cup { << svc, Doc(e) >> : e \in SeqToSet(entries) }

\* Everything but the server studied on its own.
tailerVars == << cfg, lim, calls, fileLen, disk, ctxDone, now, restarts, watcherVars,
                 lineChan, batcherVars, clientVars, persisted, hist >>

\* mongodb.collection_prefix (default "logs_"), as a sequence of characters
CollectionPrefix == << "l", "o", "g", "s", "_" >>

\* The characters of the regular expression's class [a-z0-9_]
Valid ==
    { "a", "b", "c", "d", "e", "f", "g", "h", "i", "j", "k", "l", "m", "n", "o",
      "p", "q", "r", "s", "t", "u", "v", "w", "x", "y", "z",
      "0", "1", "2", "3", "4", "5", "6", "7", "8", "9", "_" }

\* The lower-case form of one character (of those the inputs are made of).
LowerOf(c) ==
    CASE c = "A" -> "a"
      [] c = "B" -> "b"
      [] c = "I" -> "i"
      [] c = "P" -> "p"
      [] c = "W" -> "w"
      [] OTHER -> c

ToLowerNone(name) == name

\* strings.ToLower(serviceName)
ToLower(name) == [i \in 1..Len(name) |-> LowerOf(name[i])]

\* reg.ReplaceAllString(name, "_") with reg = [^a-z0-9_]: every character
\* outside the class becomes one "_".
ReplaceAllString(name) ==
    [i \in 1..Len(name) |-> IF name[i] \in Valid THEN name[i] ELSE "_"]

\* Storage.sanitizeCollectionName
sanitizeCollectionName(serviceName) ==
    CollectionPrefix \o ReplaceAllString(ToLower(serviceName))

\* ---- inputs of the server
Alphabet == { "a", "A", "0", "_", "!", " " }

WebAPI == << "W", "e", "b", " ", "A", "P", "I", "!" >>

\* Service names to resolve: every string over Alphabet up to SIdLen
\* characters, and "Web API!".
Identifiers ==
    UNION { [1..n -> Alphabet] : n \in 0..SIdLen } \cup { WebAPI }

\* Service names of the batches submitted (the empty one included).
BatchNames == { << >>, << "a" >>, << "A" >> }

\* An entry of a submitted batch: the event, and whether it carries an id.
SubmittedEntries == [key : 1..SKeys, hasId : BOOLEAN]

\* The entry lists submitted: up to two entries, of distinct events.
SubmittedLists ==
    { << >> } \cup { << e >> : e \in SubmittedEntries }
        \cup { << p[1], p[2] >> :
                   p \in { q \in SubmittedEntries \X SubmittedEntries :
                             q[1].key < q[2].key } }

\* A service name is picked for resolution.
PickIdent ==
    /\ \E id \in Identifiers :
         srv' = [srv EXCEPT !.ident = id, !.collName = << >>, !.resolutions = 0]
    /\ UNCHANGED tailerVars

\* The collection name is resolved for it (InsertBatch: collName := ...).
Resolve ==
    /\ srv.resolutions < 2
    /\ srv' = [srv EXCEPT !.collName = sanitizeCollectionName(srv.ident),
                          !.resolutions = @ + 1]
    /\ UNCHANGED tailerVars

\* The _id the driver generates for the i-th document of an insert.
GeneratedId(i) == 0 - (Cardinality({ d \in srv.docs : d.oid < 0 }) + i)

\* collection.InsertMany(ctx, docs, SetOrdered(false)) on collection coll:
\* every document is tried; one whose _id is already in the collection
\* fails with a duplicate-key error, the ones in fails fail otherwise, the
\* rest are written.
DupIndexes(coll, entries) ==
    { i \in 1..Len(entries) :
        /\ entries[i].hasId
        /\ \E d \in srv.docs : d.coll = coll /\ d.oid = entries[i].key }

InsertMany(coll, src, entries, fails) ==
    { [coll |-> coll, src |-> src, key |-> entries[i].key,
       oid |-> IF entries[i].hasId THEN entries[i].key ELSE GeneratedId(i)] :
         i \in (1..Len(entries)) \ (DupIndexes(coll, entries) \cup fails) }

\* ensureIndexes: the index models it asks for, the third one only with
\* retention configured.
IndexModels ==
    {"timestamp_desc", "hostname_timestamp"}
        \cup (IF cfg.ttlDays > 0 THEN {"ttl_index"} ELSE {})

\* collection.Indexes().CreateMany on collection coll: the indexes not yet
\* there are created; when it returns an error (failed) nothing is created,
\* and InsertBatch only logs the error.
ensureIndexes(indexes, coll, failed) ==
    IF failed THEN indexes
    ELSE indexes \cup { << coll, name >> : name \in IndexModels }

\* What InsertBatch returns for the bulk write's outcome:
\* mongo.IsDuplicateKeyError(err) holds as soon as one of the write errors
\* is a duplicate-key error.
InsertResult(dup, other) ==
    IF ~dup /\ ~other THEN "nil"
    ELSE IF dup THEN "nil"
    ELSE "err"

\* Handler.IngestLogs for one request, with Storage.InsertBatch.
IngestLogs ==
    /\ srv.requests < SRequests
    /\ \E method \in {"POST", "GET"}, decodable \in BOOLEAN,
          svc \in BatchNames, entries \in SubmittedLists,
          indexErr \in BOOLEAN, fails \in SUBSET (1..2) :
         LET request == [method |-> method, decodable |-> decodable,
                         svc |-> svc, entries |-> entries]
             base == [srv EXCEPT !.requests = @ + 1, !.last = request,
                                  !.stored = FALSE, !.ret = "none",
                                  !.repeated = FALSE,
                                  !.dups = FALSE, !.others = FALSE]
             coll == sanitizeCollectionName(svc)
             dupIdx == DupIndexes(coll, entries)
             failIdx == (fails \cap (1..Len(entries))) \ dupIdx
             ret == InsertResult(dupIdx # {}, failIdx # {})
         IN /\ fails \subseteq 1..Len(entries)
            /\ (method # "POST" \/ ~decodable) =>
                   (svc = << >> /\ entries = << >> /\ fails = {})
            /\ indexErr => (method = "POST" /\ decodable
                               /\ HandlerStatus(svc, entries, TRUE) = 200)
            /\ IF method # "POST"
                 THEN srv' = [base EXCEPT !.reply =
                                 [status |-> 405, body |-> "", received |-> 0]]
               ELSE IF ~decodable
                 THEN srv' = [base EXCEPT !.reply =
                                 [status |-> 400, body |-> "", received |-> 0]]
               ELSE IF HandlerStatus(svc, entries, TRUE) # 200
                 THEN /\ fails = {}
                      /\ srv' = [base EXCEPT !.reply =
                                 [status |-> HandlerStatus(svc, entries, TRUE),
                                  body |-> "", received |-> 0]]
               ELSE srv' = [base EXCEPT
                      !.stored = TRUE,
                      !.indexes = ensureIndexes(@, coll, indexErr),
                      !.docs = @ \cup InsertMany(coll, svc, entries, failIdx),
                      !.ret = ret,
                      !.dups = dupIdx # {},
                      !.others = failIdx # {},
                      !.repeated = /\ ret = "nil"
                                   /\ srv.ret = "nil"
                                   /\ srv.last = request,
                      !.reply =
                        IF HandlerStatus(svc, entries, ret = "nil") = 200
                          THEN [status |-> 200, body |-> "success",
                                received |-> Len(entries)]
                          ELSE [status |-> HandlerStatus(svc, entries, FALSE),
                                body |-> "", received |-> 0]]
    /\ UNCHANGED tailerVars

\* ------------------------------------------------------------ Client
IsOpenAbove == cbFailures > cfg.threshold /\ now - cbLastFail < cfg.timeout

\* CircuitBreaker.isOpen, its result
IsOpen == cbFailures >= cfg.threshold /\ now - cbLastFail < cfg.timeout

FailuresNoReset == cbFailures

FailuresResetAtThreshold ==
    IF cbFailures >= cfg.threshold /\ now - cbLastFail >= cfg.timeout
      THEN 0 ELSE cbFailures

\* CircuitBreaker.isOpen, its effect when it answers false: the counter is
\* reset once the timeout has passed.
FailuresAfterCheck ==
    IF now - cbLastFail >= cfg.timeout THEN 0 ELSE cbFailures

\* SendBatch returns to the Batcher.
Return(err) ==
    /\ cPc' = "idle"
    /\ attempt' = 0
    /\ AfterSend(err)

\* retry.Do: for attempt := 0; attempt <= cfg.MaxRetries; attempt++
\* The loop body runs for attempt 0 only when MaxRetries is not negative.
LoopEntered == 0 <= cfg.maxRetries

\* SendBatch, the circuit-breaker gate before retry.Do.  When the loop of
\* retry.Do is not entered, Do returns lastErr, which is still nil, and
\* SendBatch goes on to recordSuccess and returns nil.
SendBatchCheck ==
    /\ cPc = "check"
    /\ IF IsOpen
         THEN /\ Return(TRUE)
              /\ UNCHANGED cbFailures
              /\ hist' = [hist EXCEPT !.callOpen = TRUE, !.callTries = 0,
                                      !.callRes = "err", !.ctxErr = FALSE]
         ELSE IF ~LoopEntered
         THEN /\ Return(FALSE)
              /\ cbFailures' = 0
              /\ hist' = [hist EXCEPT !.callOpen = FALSE, !.callTries = 0,
                                      !.callRes = "ok", !.ctxErr = FALSE]
         ELSE /\ cbFailures' = FailuresAfterCheck
              /\ cPc' = "attempt"
              /\ attempt' = 0
              /\ hist' = [hist EXCEPT !.callOpen = FALSE, !.callTries = 0,
                                      !.callRes = "none", !.ctxErr = FALSE]
              /\ UNCHANGED batcherVars
    /\ UNCHANGED << outerVars, ctxDone, now, restarts, watcherVars, lineChan,
                    cbLastFail, persisted, batches, tickPending >>

AttemptFailsOn4xx(doErr, status) ==
    doErr \/ status >= 400 \/ (status # 200 /\ status # 201)

\* sendRequest's classification of one attempt: TRUE when it returns an error.
\* doErr: httpClient.Do returned an error; status: the response's status code.
AttemptFails(doErr, status) ==
    IF doErr THEN TRUE
    ELSE IF status >= 500 THEN TRUE
    ELSE IF status >= 400 THEN FALSE
    ELSE IF status # 200 /\ status # 201 THEN TRUE
    ELSE FALSE

LastAttemptEarly == attempt >= cfg.maxRetries - 1

\* retry.Do: if attempt == cfg.MaxRetries { break }
LastAttempt == attempt = cfg.maxRetries

\* The rest of retry.Do and SendBatch once an attempt has returned; h is the
\* history the step starts from.
AfterAttemptFrom(failed, h) ==
    IF ~failed
      THEN \* retry.Do returns nil; recordSuccess
           /\ cbFailures' = 0
           /\ UNCHANGED cbLastFail
           /\ Return(FALSE)
           /\ hist' = [h EXCEPT !.callTries = @ + 1, !.callRes = "ok"]
      ELSE IF LastAttempt
        THEN \* no wait after the last attempt; recordFailure
             /\ cbFailures' = cbFailures + 1
             /\ cbLastFail' = now
             /\ Return(TRUE)
             /\ hist' = [h EXCEPT !.callTries = @ + 1, !.callRes = "err"]
        ELSE /\ cPc' = "wait"
             /\ UNCHANGED << attempt, cbFailures, cbLastFail, bPc, bMode,
                             bTodo, bCur, tickAt >>
             /\ hist' = [h EXCEPT !.callTries = @ + 1]

AfterAttempt(failed) == AfterAttemptFrom(failed, hist)

\* One attempt of retry.Do: sendRequest over the network to the handler.
\*   net = "lost"     the request fails in transport, the server sees nothing
\*                    (always so once ctx is cancelled)
\*   net = "ok"       the handler's response reaches the client
\*   net = "noreply"  the handler ran but its response is lost
Networks == IF ctxDone THEN {"lost"} ELSE {"lost", "ok", "noreply"}

SendRequest ==
    /\ cPc = "attempt"
    /\ \E net \in Networks, dbOk \in BOOLEAN :
         LET svc    == BatchService(bCur)
             status == HandlerStatus(svc, bCur, dbOk)
         IN /\ net = "lost" => dbOk
            /\ IF net # "lost" /\ status = 200
                 THEN InsertBatch(svc, bCur)
                 ELSE UNCHANGED persisted
            /\ AfterAttempt(AttemptFails(net # "ok", status))
    /\ UNCHANGED << outerVars, ctxDone, now, restarts, watcherVars, lineChan,
                    batches, tickPending >>

\* The same attempt against an arbitrary HTTP endpoint: any status code, or
\* a transport error (status 0 stands for "no response").
Statuses == {0, 200, 201, 204, 302, 400, 404, 500, 503}

SendRequestAny ==
    /\ cPc = "attempt"
    /\ \E status \in (IF ctxDone THEN {0} ELSE Statuses) :
         AfterAttempt(AttemptFails(status = 0, status))
    /\ UNCHANGED << outerVars, ctxDone, now, restarts, watcherVars, lineChan,
                    batches, tickPending, persisted >>

WaitElapsesAnyway == TRUE

\* retry.Do's select takes the case of time.After: the timer fires while the
\* goroutine is parked in the select.  Once ctx.Done() is closed the parked
\* goroutine is woken with that case, and a select entered after the close
\* finds Done ready and the new timer (at least InitialWait long) not.
WaitElapses == ~ctxDone

\* retry.Do's select between attempts: the backoff elapses, or ctx is done
\* (return ctx.Err(); SendBatch then records a failure).
RetryWait ==
    /\ cPc = "wait"
    /\ \/ /\ WaitElapses
          /\ cPc' = "attempt"
          /\ attempt' = attempt + 1
          /\ UNCHANGED << cbFailures, cbLastFail, bPc, bMode, bTodo, bCur,
                          tickAt, hist >>
       \/ /\ ctxDone
          /\ cbFailures' = cbFailures + 1
          /\ cbLastFail' = now
          /\ Return(TRUE)
          /\ hist' = [hist EXCEPT !.callRes = "err", !.ctxErr = TRUE]
    /\ UNCHANGED << outerVars, ctxDone, now, restarts, watcherVars, lineChan,
                    batches, tickPending, persisted >>

\* The same attempt, with the status of the response kept in the history.
SendRequestSeen ==
    /\ cPc = "attempt"
    /\ \E status \in (IF ctxDone THEN {0} ELSE Statuses) :
         AfterAttemptFrom(AttemptFails(status = 0, status),
                          [hist EXCEPT !.resp = status])
    /\ UNCHANGED << outerVars, ctxDone, now, restarts, watcherVars, lineChan,
                    batches, tickPending, persisted >>

\* ---- SendBatch called by several goroutines at once.  isOpen,
\* recordSuccess and recordFailure each run under cb.mu, so each is one step.
raceRest == << cfg, lim, srv, fileLen, disk, ctxDone, now, restarts,
               watcherVars, lineChan, batcherVars, cPc, attempt, persisted,
               hist >>

\* Caller c calls SendBatch.
RaceCall(c) ==
    /\ calls.pc[c] = "idle"
    /\ calls' = [calls EXCEPT !.pc[c] = "check", !.attempt[c] = 0,
                              !.res[c] = "none"]
    /\ UNCHANGED << raceRest, cbFailures, cbLastFail >>

\* Its gate: isOpen.
RaceCheck(c) ==
    /\ calls.pc[c] = "check"
    /\ IF IsOpen
         THEN /\ calls' = [calls EXCEPT !.pc[c] = "idle", !.res[c] = "err"]
              /\ UNCHANGED cbFailures
         ELSE /\ calls' = [calls EXCEPT !.pc[c] = "attempt"]
              /\ cbFailures' = FailuresAfterCheck
    /\ UNCHANGED << raceRest, cbLastFail >>

RecordsEveryAttempt(last) == TRUE

\* SendBatch calls recordFailure when retry.Do has returned an error, that is
\* after the last attempt only.
RecordsFailure(last) == last

\* One attempt of its retry.Do, and what follows when it was the last.
RaceAttempt(c) ==
    /\ calls.pc[c] = "attempt"
    /\ \E status \in (IF ctxDone THEN {0} ELSE Statuses) :
         LET failed == AttemptFails(status = 0, status)
             last   == calls.attempt[c] = cfg.maxRetries
         IN IF ~failed
              THEN /\ cbFailures' = 0
                   /\ UNCHANGED cbLastFail
                   /\ calls' = [calls EXCEPT !.pc[c] = "idle", !.res[c] = "ok"]
              ELSE /\ IF RecordsFailure(last)
                        THEN cbFailures' = cbFailures + 1 /\ cbLastFail' = now
                        ELSE UNCHANGED << cbFailures, cbLastFail >>
                   /\ calls' = IF last
                                 THEN [calls EXCEPT !.pc[c] = "idle",
                                                    !.res[c] = "err"]
                                 ELSE [calls EXCEPT !.pc[c] = "wait"]
    /\ UNCHANGED raceRest

\* Its wait between attempts: the backoff elapses, or ctx is done.
RaceWait(c) ==
    /\ calls.pc[c] = "wait"
    /\ \/ /\ WaitElapses
          /\ calls' = [calls EXCEPT !.pc[c] = "attempt", !.attempt[c] = @ + 1]
          /\ UNCHANGED << cbFailures, cbLastFail >>
       \/ /\ ctxDone
          /\ cbFailures' = cbFailures + 1
          /\ cbLastFail' = now
          /\ calls' = [calls EXCEPT !.pc[c] = "idle", !.res[c] = "err"]
    /\ UNCHANGED raceRest

\* ---- retry.calculateBackoff.  Durations are counted in sixteenths of a
\* second, which keeps a quarter of a jitter step of any wait a whole number.
RECURSIVE Pow(_, _)
Pow(b, n) == IF n = 0 THEN 1 ELSE b * Pow(b, n - 1)

\* rand.Float64()*2 - 1 lies in [-1, 1): the values r / JitterSteps for r in
\* JitterDraws.
JitterDraws == (0 - JitterSteps) .. (JitterSteps - 1)

NotFloored(backoff) == backoff

\* if backoff < float64(cfg.InitialWait) { backoff = float64(cfg.InitialWait) }
Floored(backoff) ==
    IF backoff < cfg.initialWait THEN cfg.initialWait ELSE backoff

\* calculateBackoff(attempt, cfg) when the jitter drawn is r / JitterSteps
calculateBackoff(n, r) ==
    LET exp    == cfg.initialWait * Pow(cfg.multiplier, n)
        capped == IF exp > cfg.retryMaxWait THEN cfg.retryMaxWait ELSE exp
        jitter == (capped * r) \div (4 * JitterSteps)
    IN Floored(capped + jitter)

\* retry.Do computes the wait after a failed attempt that is not the last.
CalculateBackoff ==
    /\ \E n \in 0..KAttempts, r \in JitterDraws :
         hist' = [hist EXCEPT !.backoff =
                     [attempt |-> n, jitter |-> r,
                      wait |-> calculateBackoff(n, r)]]
    /\ UNCHANGED << outerVars, ctxDone, now, restarts, watcherVars, lineChan,
                    batcherVars, clientVars, persisted >>

\* ------------------------------------------------------------ time
\* One clock unit passes; the ticker puts a tick into ticker.C (capacity 1)
\* when its period ends.
Advance ==
    /\ now < lim.time
    /\ now' = now + 1
    /\ IF now + 1 >= tickAt /\ bPc # "done"
         THEN /\ tickPending' = TRUE
              /\ tickAt' = tickAt + cfg.maxWait
         ELSE UNCHANGED << tickPending, tickAt >>
    /\ UNCHANGED << outerVars, ctxDone, restarts, watcherVars, lineChan, batches,
                    bPc, bMode, bTodo, bCur, clientVars, persisted, hist >>

\* ------------------------------------------------------------ restart
\* The process ends (crash, kill, or main returning) and is started again:
\* everything in memory is lost, the files, the state file and the database
\* remain.
Restart ==
    /\ restarts < lim.restarts
    /\ restarts' = restarts + 1
    /\ ctxDone' = FALSE
    /\ wPc' = "init"
    /\ saverPc' = "off"
    /\ wstate' = [f \in Files |-> NoState]
    /\ taskPc' = [f \in Files |-> "off"]
    /\ tailPos' = [f \in Files |-> 0]
    /\ lineNumber' = [f \in Files |-> 0]
    /\ lineChan' = << >>
    /\ batches' = [s \in Services |-> << >>]
    /\ bPc' = "select"
    /\ bMode' = "none"
    /\ bTodo' = {}
    /\ bCur' = << >>
    /\ tickPending' = FALSE
    /\ tickAt' = now + cfg.maxWait
    /\ cPc' = "idle"
    /\ attempt' = 0
    /\ cbFailures' = 0
    /\ cbLastFail' = ZeroTime
    /\ hist' = HistInit
    /\ UNCHANGED << outerVars, now, persisted >>

\* The clock when latencies are taken to be zero: time passes only while the
\* Batcher waits in its select with no tick to serve and nothing to receive.
AdvanceUrgent ==
    /\ bPc = "select"
    /\ ~tickPending
    /\ lineChan = << >>
    /\ Advance

\* The clock in the scenario of one file feeding the Batcher, latencies taken
\* to be zero.  When the file is read in one go (lim.atOnce) the clock moves
\* only after the file has delivered all its lines.
AdvanceBurst ==
    /\ lim.atOnce => tailPos["f1"] = lim.lines
    /\ AdvanceUrgent

\* ------------------------------------------------------------ open ends
\* The far end of lineChan when only the Watcher is studied: whoever holds
\* the receiving end takes the next entry.
ChanReceive ==
    /\ lineChan # << >>
    /\ lineChan' = Tail(lineChan)
    /\ UNCHANGED << outerVars, ctxDone, now, restarts, watcherVars,
                    batcherVars, clientVars, persisted, hist >>

\* The near end of lineChan when the Watcher is not studied: a file task
\* puts its next entry into the queue (GetLineChan hands out the send end).
ChanSend(f) ==
    /\ tailPos[f] < lim.lines
    /\ Len(lineChan) < cfg.queueSize
    /\ tailPos' = [tailPos EXCEPT ![f] = @ + 1]
    /\ lineNumber' = [lineNumber EXCEPT ![f] = NextLineNumber(f)]
    /\ LET e == Entry(f, tailPos[f] + 1, NextLineNumber(f))
       IN lineChan' = Append(lineChan, e)
    /\ UNCHANGED << outerVars, ctxDone, now, restarts, wPc, saverPc, wstate,
                    taskPc, batcherVars, clientVars, persisted, hist >>

\* The BatchSender interface when the Client is not studied: SendBatch
\* returns nil or an error.
SenderReturn ==
    /\ cPc = "check"
    /\ \E err \in BOOLEAN :
         /\ Return(err)
         /\ hist' = [hist EXCEPT !.callRes = IF err THEN "err" ELSE "ok",
                                 !.ctxErr = FALSE]
    /\ UNCHANGED << outerVars, ctxDone, now, restarts, watcherVars, lineChan,
                    batches, tickPending, cbFailures, cbLastFail, persisted >>

\* The caller of the BatchSender when the Batcher is not studied: SendBatch
\* is called with a batch of one entry, as by a size flush; h is the history
\* the step starts from.
CallSendBatchFrom(h) ==
    /\ cPc = "idle"
    /\ bPc = "select"
    /\ bCur' = << Entry("f1", 1, 1) >>
    /\ bPc' = "sending"
    /\ bMode' = "size"
    /\ cPc' = "check"
    /\ hist' = [h EXCEPT !.callAtLimit = (cbFailures >= cfg.threshold),
                         !.resp = 0, !.sentAs = "a"]
    /\ UNCHANGED << outerVars, ctxDone, now, restarts, watcherVars, lineChan,
                    batches, bTodo, tickPending, tickAt, attempt, cbFailures,
                    cbLastFail, persisted >>

CallSendBatch == CallSendBatchFrom(hist)

\* The same caller when it lets at least the breaker's timeout pass after
\* a call that failed before it calls again.
CallSpaced ==
    /\ hist.callRes = "err" => now - cbLastFail >= cfg.timeout
    /\ CallSendBatchFrom([hist EXCEPT !.failedRun =
                              IF hist.callRes = "err" THEN @ + 1 ELSE 0])

\* ------------------------------------------------------------ specifications
Limits(n, t, r) == [ lines |-> n, time |-> t, restarts |-> r ]

Config(q, m, w, r, t, d) ==
    [ queueSize |-> q, maxSize |-> m, maxWait |-> w, maxRetries |-> r,
      threshold |-> t, timeout |-> d, serviceNames |-> OneServicePerFile,
      initialWait |-> Second, retryMaxWait |-> 60 * Second, multiplier |-> 2,
      ttlDays |-> TtlDays ]

WatcherStep(f) ==
    \/ TaskOpen(f)
    \/ TaskRecv(f)
    \/ TaskEnqueue(f)
    \/ TaskDrop(f)
    \/ TaskStop(f)

\* ---- the Watcher, with the far end of its queue open
InitWatcher ==
    /\ fileLen = [f \in Files |-> 0]
    /\ Boot(Config(WQueueSize, BMaxSize, BMaxWait, CMaxRetries, CThreshold, CTimeout),
            Limits(WLines, 0, WRestarts))

NextWatcher ==
    \/ \E f \in Files : AppendLine(f)
    \/ Cancel
    \/ WatcherStart
    \/ \E f \in Files : WatcherStep(f)
    \/ SaverTick
    \/ SaverStop
    \/ WatcherFinish
    \/ ChanReceive
    \/ Restart

SpecWatcher == InitWatcher /\ [][NextWatcher]_vars

\* ---- the file tasks of one run of the Watcher, scheduled fairly
InitTasks ==
    /\ fileLen = [f \in Files |-> 0]
    /\ Boot(Config(WQueueSize, BMaxSize, BMaxWait, CMaxRetries, CThreshold, CTimeout),
            Limits(WLines, 0, 0))

NextTasks ==
    \/ \E f \in Files : AppendLine(f)
    \/ Cancel
    \/ WatcherStart
    \/ \E f \in Files : WatcherStep(f)
    \/ ChanReceive

\* Each file task is its own goroutine and the runtime keeps scheduling it.
SpecTasks ==
    InitTasks /\ [][NextTasks]_vars /\ \A f \in Files : WF_vars(WatcherStep(f))

\* ---- the Watcher across a rotation that happens while the tailer is down
InitRotate ==
    /\ fileLen = [f \in Files |-> 0]
    /\ Boot(Config(WQueueSize, BMaxSize, BMaxWait, CMaxRetries, CThreshold, CTimeout),
            Limits(RLines, 0, RRestarts))

NextRotate ==
    \/ \E f \in Files : AppendLine(f)
    \/ \E f \in Files : Rotate(f)
    \/ Cancel
    \/ WatcherStart
    \/ \E f \in Files : WatcherStep(f)
    \/ \E f \in Files : TailTruncated(f)
    \/ WatcherFinish
    \/ ChanReceive
    \/ Restart

SpecRotate == InitRotate /\ [][NextRotate]_vars

\* ---- the Batcher, with both of its ends open
InitBatcher ==
    /\ fileLen = [f \in Files |-> 0]
    /\ Boot(Config(BQueueSize, BMaxSize, BMaxWait, CMaxRetries, CThreshold, CTimeout),
            Limits(BLines, BTime, 0))

BatcherStep ==
    \/ BatcherRecv
    \/ BatcherTick
    \/ BatcherCancel
    \/ FlushStep

NextBatcher ==
    \/ \E f \in Files : ChanSend(f)
    \/ Cancel
    \/ BatcherStep
    \/ SenderReturn
    \/ Advance

SpecBatcher == InitBatcher /\ [][NextBatcher]_vars

\* ---- the Batcher when both files belong to one service
InitShared ==
    /\ fileLen = [f \in Files |-> 0]
    /\ Boot([Config(BQueueSize, BMaxSize, BMaxWait, CMaxRetries, CThreshold, CTimeout)
               EXCEPT !.serviceNames = OneServiceForAll],
            Limits(BLines, BTime, 0))

SpecShared == InitShared /\ [][NextBatcher]_vars

\* ---- the Batcher with zero latencies, for its timing
NextTimed ==
    \/ \E f \in Files : ChanSend(f)
    \/ Cancel
    \/ BatcherStep
    \/ SenderReturn
    \/ AdvanceUrgent

SpecTimed == InitBatcher /\ [][NextTimed]_vars

\* ---- the Batcher fed by one file of two and a half batches, which is read
\* in one go or line by line as time passes
InitBurst ==
    /\ fileLen = [f \in Files |-> 0]
    /\ \E b \in BOOLEAN :
         Boot(Config(TQueueSize, TMaxSize, BMaxWait, CMaxRetries, CThreshold, CTimeout),
              [ lines |-> 2 * TMaxSize + (TMaxSize \div 2), time |-> TTime,
                restarts |-> 0, atOnce |-> b ])

NextBurst ==
    \/ ChanSend("f1")
    \/ BatcherRecv
    \/ BatcherTick
    \/ FlushStep
    \/ SenderReturn
    \/ AdvanceBurst

SpecBurst == InitBurst /\ [][NextBurst]_vars

\* ---- the Client behind the Batcher, against an arbitrary endpoint
InitClient ==
    /\ fileLen = [f \in Files |-> 0]
    /\ Boot(Config(CQueueSize, CMaxSize, BMaxWait, CMaxRetries, CThreshold, CTimeout),
            Limits(CLines, CTime, 0))

NextClient ==
    \/ \E f \in Files : ChanSend(f)
    \/ Cancel
    \/ BatcherStep
    \/ SendBatchCheck
    \/ SendRequestAny
    \/ RetryWait
    \/ Advance

SpecClient == InitClient /\ [][NextClient]_vars

\* ---- the Client called directly, against an arbitrary endpoint
InitSend ==
    /\ fileLen = [f \in Files |-> 0]
    /\ Boot(Config(CQueueSize, CMaxSize, BMaxWait, CMaxRetries, CThreshold, CTimeout),
            Limits(0, CTime, 0))

NextSend ==
    \/ CallSendBatch
    \/ Cancel
    \/ SendBatchCheck
    \/ SendRequestSeen
    \/ RetryWait
    \/ Advance

SpecSend == InitSend /\ [][NextSend]_vars

\* ---- SendBatch under any server.max_retries of the configuration file,
\* which LoadTailerConfig does not validate: negative, zero or positive.
InitRetries ==
    /\ fileLen = [f \in Files |-> 0]
    /\ \E r \in {-1, 0, CMaxRetries} :
         Boot(Config(CQueueSize, CMaxSize, BMaxWait, r, CThreshold, CTimeout),
              Limits(0, CTime, 0))

SpecRetries == InitRetries /\ [][NextSend]_vars

\* ---- SendBatch calls that keep the breaker's timeout as their distance
\* after a failure
InitSpaced ==
    /\ fileLen = [f \in Files |-> 0]
    /\ Boot(Config(CQueueSize, CMaxSize, BMaxWait, CMaxRetries, EThreshold, ETimeout),
            Limits(0, ETime, 0))

NextSpaced ==
    \/ CallSpaced
    \/ Cancel
    \/ SendBatchCheck
    \/ SendRequestSeen
    \/ RetryWait
    \/ Advance

SpecSpaced == InitSpaced /\ [][NextSpaced]_vars

\* ---- several SendBatch calls at once on one Client
NextRace ==
    \/ \E c \in Callers : RaceCall(c)
    \/ \E c \in Callers : RaceCheck(c)
    \/ \E c \in Callers : RaceAttempt(c)
    \/ \E c \in Callers : RaceWait(c)
    \/ Cancel
    \/ Advance

SpecRace == InitSend /\ [][NextRace]_vars

\* ---- the backoff of retry.Do, for the retry configurations drawn
InitBackoff ==
    /\ fileLen = [f \in Files |-> 0]
    /\ \E iw \in {Second, 2 * Second}, mw \in {4 * Second, 6 * Second, 60 * Second},
          m \in {2, 3} :
         Boot([Config(CQueueSize, CMaxSize, BMaxWait, CMaxRetries, CThreshold, CTimeout)
                 EXCEPT !.initialWait = iw, !.retryMaxWait = mw, !.multiplier = m],
              Limits(0, 0, 0))

NextBackoff == CalculateBackoff

SpecBackoff == InitBackoff /\ [][NextBackoff]_vars

\* ---- the resolution of collection names
NextResolve ==
    \/ PickIdent
    \/ Resolve

SpecResolve == InitSend /\ [][NextResolve]_vars

\* ---- the server: Handler and Storage, any client
\* The server is constructed with retention configured or not.
InitServer ==
    /\ fileLen = [f \in Files |-> 0]
    /\ \E days \in {0, TtlDays} :
         Boot([Config(CQueueSize, CMaxSize, BMaxWait, CMaxRetries, CThreshold,
                      CTimeout) EXCEPT !.ttlDays = days],
              Limits(0, CTime, 0))

NextServer == IngestLogs

SpecServer == InitServer /\ [][NextServer]_vars

\* ---- the whole pipeline: Watcher, Batcher, Client, Handler, Storage
Init ==
    /\ fileLen = [f \in Files |-> 0]
    /\ Boot(Config(PQueueSize, PMaxSize, BMaxWait, CMaxRetries, CThreshold, CTimeout),
            Limits(PLines, PTime, PRestarts))

Next ==
    \/ \E f \in Files : AppendLine(f)
    \/ Cancel
    \/ WatcherStart
    \/ \E f \in Files : WatcherStep(f)
    \/ SaverTick
    \/ SaverStop
    \/ WatcherFinish
    \/ BatcherStep
    \/ SendBatchCheck
    \/ SendRequest
    \/ RetryWait
    \/ Advance
    \/ Restart

Spec == Init /\ [][Next]_vars

\* ---- one run of the process, from its start to after the signal.  Every
\* goroutine (Watcher.Start, each file task, the state saver, the Batcher
\* with the SendBatch it calls) is scheduled again and again by the runtime.
InitStop ==
    /\ fileLen = [f \in Files |-> 0]
    /\ Boot(Config(PQueueSize, PMaxSize, DMaxWait, CMaxRetries, CThreshold, CTimeout),
            Limits(DLines, DTime, 0))

\* Only the first file is written to; the second one is watched all the same.
NextStop ==
    \/ AppendLine("f1")
    \/ Cancel
    \/ WatcherStart
    \/ \E f \in Files : WatcherStep(f)
    \/ SaverTick
    \/ SaverStop
    \/ WatcherFinish
    \/ BatcherStep
    \/ SendBatchCheck
    \/ SendRequest
    \/ RetryWait
    \/ Advance

\* ---- one run of the process under any service_name the configuration
\* file can hold.  main exits at once when LoadTailerConfig returns an error.
InitNamed ==
    /\ fileLen = [f \in Files |-> 0]
    /\ \E name \in Services :
         Boot([Config(PQueueSize, PMaxSize, DMaxWait, CMaxRetries, CThreshold,
                      CTimeout) EXCEPT !.serviceNames = ServiceNames(name)],
              Limits(DLines, DTime, 0))

MainProceeds == \A f \in Files : Validated(ServiceOf(f))

NextNamed == MainProceeds /\ NextStop

SpecNamed == InitNamed /\ [][NextNamed]_vars

SpecStop ==
    /\ InitStop
    /\ [][NextStop]_vars
    /\ WF_vars(WatcherStart)
    /\ \A f \in Files : WF_vars(WatcherStep(f))
    /\ WF_vars(SaverStop)
    /\ WF_vars(WatcherFinish)
    /\ WF_vars(BatcherStep)
    /\ WF_vars(SendBatchCheck)
    /\ WF_vars(SendRequest)
    /\ WF_vars(RetryWait)

\* ------------------------------------------------------------ claims
Started(f) == taskPc[f] \in {"recv", "send", "done"}

QueuedOf(f) == { e \in SeqToSet(lineChan) : e.file = f }

\* C2: a task that resumes from a saved offset N receives exactly the lines
\* N+1, N+2, ... in order: nothing at or before N is emitted again and no
\* line after N is skipped.
ResumeFromCheckpoint ==
    \A f \in Files :
        (Started(f) /\ hist.loaded[f] # NoState) =>
            /\ tailPos[f] - lineNumber[f] = hist.loaded[f]
            /\ \A e \in QueuedOf(f) : e.idx > hist.loaded[f]

ResumedAndEmitted ==
    \E f \in Files :
        /\ Started(f)
        /\ hist.loaded[f] >= 1
        /\ lineNumber[f] >= 1
        /\ QueuedOf(f) # {}

\* C3: a task that starts without a saved FileState begins at end-of-file:
\* no line that was in the file when the task opened it is ever emitted.
FreshStartAtEnd ==
    \A f \in Files :
        (Started(f) /\ hist.loaded[f] = NoState) =>
            /\ tailPos[f] - lineNumber[f] >= hist.openLen[f]
            /\ \A e \in QueuedOf(f) : e.idx > hist.openLen[f]

FreshWithHistoryEmitted ==
    \E f \in Files :
        /\ Started(f)
        /\ hist.loaded[f] = NoState
        /\ hist.openLen[f] >= 1
        /\ QueuedOf(f) # {}

\* C4: within a watch session the entries of a file carry strictly
\* increasing line numbers, and each line number is the count of lines the
\* session has received from the file up to and including that line.
SequenceNumbers ==
    \A f \in Files :
        Started(f) =>
            /\ lineNumber[f] = tailPos[f] - hist.sessStart[f]
            /\ \A e \in QueuedOf(f) :
                 /\ e.ln = e.idx - hist.sessStart[f]
                 /\ e.ln >= 1
                 /\ e.ln <= lineNumber[f]
                 /\ taskPc[f] = "send" => e.ln < lineNumber[f]
            /\ \A i, j \in 1..Len(lineChan) :
                 (i < j /\ lineChan[i].file = f /\ lineChan[j].file = f)
                     => lineChan[i].ln < lineChan[j].ln

SecondLineEmitted ==
    \E f \in Files :
        /\ taskPc[f] = "send"
        /\ lineNumber[f] = 2
        /\ QueuedOf(f) # {}

\* C5: a file task never stays in the enqueue attempt: the attempt ends by
\* the entry being queued, by the drop on timeout, or by cancellation.
EnqueueAttemptEnds ==
    \A f \in Files : (taskPc[f] = "send") ~> (taskPc[f] # "send")

DroppedAndReading ==
    \E f \in Files : hist.dropped[f] /\ taskPc[f] = "recv"

\* C6: once the Batcher is back in its select no buffer holds maxSize or more
\* entries, and a size-triggered flush of one service's buffer leaves every
\* other service's buffer as it was.
SizeFlush ==
    [][ /\ bPc' = "select" => \A s \in Services : Len(batches'[s]) < cfg.maxSize
        /\ (bMode' = "size" /\ bCur' # << >>) =>
              \A t \in Services :
                  t # BatchService(bCur') => batches'[t] = batches[t] ]_vars

SizeFlushBesideBuffered ==
    /\ bMode = "size"
    /\ bPc = "sending"
    /\ Len(bCur) = cfg.maxSize
    /\ \E t \in Services : t # BatchService(bCur) /\ batches[t] # << >>

\* C7: no entry waits in a buffer longer than maxWait (send latency taken to
\* be zero): a non-empty buffer became non-empty at most maxWait ago.
WaitBounded ==
    \A s \in Services :
        batches[s] # << >> => now - hist.bufSince[s] <= cfg.maxWait

\* C8: when Batcher.Start has returned after cancellation, every buffer has
\* been handed to the sender: no buffer still holds entries.
FinalFlushAll ==
    bPc = "done" => \A s \in Services : batches[s] = << >>

\* C9: when the Batcher has terminated, every entry that was in the intake
\* queue or in a buffer at cancellation has been handed to the sender.
CancelHandsEverything ==
    bPc = "done" => hist.atCancel \subseteq hist.handed

\* C10: a SendBatch call that finds the breaker OPEN (failures >= threshold
\* and less than timeout since the last failure) returns an error at once,
\* without any sendRequest and without touching the breaker.
OpenRejectsWithoutAttempt ==
    [][ ( /\ cPc = "check"
          /\ cPc' # "check"
          /\ cbFailures >= cfg.threshold
          /\ now - cbLastFail < cfg.timeout )
        => ( /\ cPc' = "idle"
             /\ hist'.callOpen
             /\ hist'.callTries = 0
             /\ hist'.callRes = "err"
             /\ persisted' = persisted
             /\ cbFailures' = cbFailures
             /\ cbLastFail' = cbLastFail ) ]_vars

RejectedByOpenBreaker ==
    /\ hist.callOpen
    /\ hist.callRes = "err"
    /\ hist.callTries = 0
    /\ cPc = "idle"
    /\ cbFailures >= cfg.threshold

\* C1: at-least-once delivery.  A line the Watcher has read and the Batcher
\* has handed to the Delivery Client is persisted, or belongs to the batch
\* being sent, or will be read again by a process that resumes from the
\* persisted checkpoint (it lies after the saved offset; a file without a
\* checkpoint is not resumed at all and is left aside).  Lines dropped at a
\* full intake queue and lines still queued or buffered are left aside as
\* well: the statement is the claim's, for the lines that got furthest.
Handed(f, i) == \E e \in hist.handed : e.file = f /\ e.idx = i

BeingSent(f, i) == \E e \in SeqToSet(bCur) : e.file = f /\ e.idx = i

ReadAgainAfterRestart(f, i) == disk[f] = NoState \/ disk[f] < i

AtLeastOnce ==
    \A f \in Files : \A i \in 1..lim.lines :
        Handed(f, i) =>
            \/ << ServiceOf(f), [file |-> f, idx |-> i] >> \in persisted
            \/ BeingSent(f, i)
            \/ ReadAgainAfterRestart(f, i)

\* C11: the breaker's rule.  A call is rejected exactly when failures >=
\* threshold and less than timeout has passed since the last failure;
\* otherwise it is admitted, and the counter is 0 afterwards when the timeout
\* has passed since the last failure.  The counter counts consecutive failed
\* sends: a failed send adds one and stamps the time, a successful one
\* resets it, a rejected call leaves it alone; it never exceeds the threshold.
BreakerRule ==
    [][ /\ (cPc = "check" /\ cPc' # "check") =>
              IF cbFailures >= cfg.threshold /\ now - cbLastFail < cfg.timeout
                THEN /\ cPc' = "idle"
                     /\ hist'.callRes = "err"
                     /\ hist'.callTries = 0
                     /\ cbFailures' = cbFailures
                     /\ cbLastFail' = cbLastFail
                ELSE /\ cPc' = "attempt"
                     /\ cbLastFail' = cbLastFail
                     /\ cbFailures' = IF now - cbLastFail >= cfg.timeout
                                        THEN 0 ELSE cbFailures
        /\ (cPc \in {"attempt", "wait"} /\ cPc' = "idle") =>
              IF hist'.callRes = "err"
                THEN cbFailures' = cbFailures + 1 /\ cbLastFail' = now
                ELSE cbFailures' = 0 /\ cbLastFail' = cbLastFail
        /\ cbFailures' <= cfg.threshold ]_vars

ReadmittedAfterOpen ==
    /\ hist.callAtLimit
    /\ cPc = "attempt"
    /\ hist.callTries = 0
    /\ cbFailures = 0
    /\ now - cbLastFail >= cfg.timeout

\* C12: a send whose attempts all fail, with the breaker closed and no
\* cancellation, makes maxRetries + 1 attempts: a failed attempt that is not
\* the last is followed by a wait, the wait by the next attempt, and the
\* error is returned straight from attempt number maxRetries + 1.
RetriesExhausted ==
    [][ /\ (cPc = "attempt" /\ cPc' = "idle" /\ hist'.callRes = "err") =>
              /\ hist'.callTries = cfg.maxRetries + 1
              /\ AttemptFails(hist'.resp = 0, hist'.resp)
        /\ (cPc = "attempt" /\ cPc' # "attempt"
              /\ AttemptFails(hist'.resp = 0, hist'.resp)
              /\ hist'.callTries <= cfg.maxRetries) => cPc' = "wait"
        /\ (cPc = "wait" /\ cPc' # "wait" /\ ~ctxDone) =>
              /\ cPc' = "attempt"
              /\ hist'.callTries = hist.callTries
              /\ hist.callTries <= cfg.maxRetries ]_vars

RetriesUsedUp ==
    /\ cPc = "idle"
    /\ ~ctxDone
    /\ ~hist.callOpen
    /\ hist.callRes = "err"
    /\ hist.callTries = cfg.maxRetries + 1
    /\ hist.resp >= 500

\* C13: a 4xx response ends the call: no further attempt is made, SendBatch
\* returns success, the breaker counts a success, and the batch is neither
\* kept nor put back into a buffer.
ClientErrorEndsCall ==
    (hist.resp >= 400 /\ hist.resp < 500) =>
        /\ cPc = "idle"
        /\ hist.callRes = "ok"
        /\ cbFailures = 0
        /\ bCur = << >>
        /\ \A sv \in Services : batches[sv] = << >>

RejectedAfterRetry ==
    /\ hist.resp = 404
    /\ hist.callTries = 2
    /\ cPc = "idle"
    /\ hist.callRes = "ok"

\* C14: every 2xx response is a success: the call ends with it and SendBatch
\* returns success.
SuccessOn2xx ==
    (hist.resp >= 200 /\ hist.resp < 300) =>
        /\ cPc = "idle"
        /\ hist.callRes = "ok"

\* C20: the in-memory checkpoint of a file is not advanced past a line that
\* was dropped on the queue-full timeout: after a drop it still lies before
\* the dropped line.
CheckpointSkipsNoDrop ==
    \A f \in Files :
        (taskPc[f] = "recv" /\ hist.dropped[f]) =>
            (wstate[f] = NoState \/ wstate[f] < tailPos[f])

\* ------------------------------------------------------------ C15
\* The claim's rule, written from its words: lower-case the identifier, then
\* put one "_" for every character outside [a-z0-9_].
RECURSIVE Sanitized(_)
Sanitized(id) ==
    IF id = << >> THEN << >>
    ELSE LET c == IF Head(id) \in {"A", "B", "I", "P", "W"}
                    THEN CASE Head(id) = "A" -> "a"
                           [] Head(id) = "B" -> "b"
                           [] Head(id) = "I" -> "i"
                           [] Head(id) = "P" -> "p"
                           [] Head(id) = "W" -> "w"
                    ELSE Head(id)
         IN << IF c \in Valid THEN c ELSE "_" >> \o Sanitized(Tail(id))

\* C15: the collection name resolved for a source identifier is the
\* configured prefix followed by the identifier lower-cased with every
\* character outside [a-z0-9_] replaced by one "_", the same on every
\* resolution; "Web API!" yields "<prefix>web_api_".
CollectionNameResolved ==
    srv.resolutions > 0 =>
        /\ srv.collName = CollectionPrefix \o Sanitized(srv.ident)
        /\ Len(srv.collName) = Len(CollectionPrefix) + Len(srv.ident)
        /\ srv.ident = WebAPI =>
               srv.collName = CollectionPrefix
                                \o << "w", "e", "b", "_", "a", "p", "i", "_" >>

\* "Web API!" has been resolved a second time.
WebAPIResolvedTwice == srv.ident = WebAPI /\ srv.resolutions = 2

\* ------------------------------------------------------------ C16
\* The persisted copies of event key that service src brought to its collection
Copies(src, key) ==
    { d \in srv.docs :
        d.coll = sanitizeCollectionName(src) /\ d.src = src /\ d.key = key }

\* C16: after the same batch was inserted twice, with success both times,
\* there is exactly one persisted copy of each of its events in the source's
\* collection.
InsertTwiceOneCopy ==
    srv.repeated =>
        \A i \in 1..Len(srv.last.entries) :
            Cardinality(Copies(srv.last.svc, srv.last.entries[i].key)) = 1

\* ------------------------------------------------------------ C17
\* Every event of the last request is in the collection of its service.
DataPresent ==
    \A i \in 1..Len(srv.last.entries) :
        \E d \in srv.docs :
            /\ d.coll = sanitizeCollectionName(srv.last.svc)
            /\ d.key = srv.last.entries[i].key

\* C17: InsertBatch returns success only when the batch's data is present
\* afterwards (the half of "exactly when" that an earlier insert of the same
\* events cannot disturb); a bulk write whose only failures are duplicate
\* keys returns success, and any other failure of the write is returned as
\* an error.
SuccessIffPresent ==
    srv.stored =>
        /\ srv.ret = "nil" => DataPresent
        /\ (srv.dups /\ ~srv.others) => srv.ret = "nil"
        /\ srv.others => srv.ret = "err"

\* ------------------------------------------------------------ C18
\* C18: a batch with an empty source identifier or an empty entry list is
\* answered 4xx without invoking the Storage Engine; an accepted batch that
\* the Storage Engine stores is answered 2xx with status "success" and
\* received equal to the number of its entries.
ValidatesThenReports ==
    /\ ( /\ srv.last.method = "POST"
          /\ srv.last.decodable
          /\ (srv.last.svc = << >> \/ srv.last.entries = << >>) ) =>
            /\ srv.reply.status \in 400..499
            /\ ~srv.stored
    /\ (srv.stored /\ srv.ret = "nil") =>
            /\ srv.reply.status \in 200..299
            /\ srv.reply.body = "success"
            /\ srv.reply.received = Len(srv.last.entries)

\* After a batch of two entries was stored and answered, one without a
\* source identifier is rejected.
RejectedAfterStored ==
    /\ srv.requests = 2
    /\ srv.last.method = "POST" /\ srv.last.decodable
    /\ srv.last.svc = << >> /\ Len(srv.last.entries) = 2
    /\ srv.reply.status = 400
    /\ Cardinality(srv.docs) = 2

\* ------------------------------------------------------------ C19
\* C19: each batch is written only to the collection resolved for its own
\* source identifier, and events of two distinct source identifiers are
\* never persisted in the same collection.
PartitionedPerSource ==
    /\ \A d \in srv.docs : d.coll = sanitizeCollectionName(d.src)
    /\ \A d1, d2 \in srv.docs : d1.src # d2.src => d1.coll # d2.coll

\* ------------------------------------------------------------ C21
\* C21: after a watched file was renamed away and a fresh file created at
\* the same path, a tailer that starts from its persisted checkpoint reads
\* the new file from offset 0: no line of the new file is skipped.
RotationResumesAtZero ==
    \A f \in Files :
        ( /\ taskPc[f] \in {"recv", "send"}
          /\ hist.rotated[f]
          /\ hist.loaded[f] # NoState
          /\ tailPos[f] <= fileLen[f] ) => hist.sessStart[f] = 0

InFullBatches == (lim.lines \div cfg.maxSize) * cfg.maxSize

\* A step that hands a batch to the Delivery Client.
HandsBatch == bCur = << >> /\ bCur' # << >>

\* Every batch handed over is a full one of maxSize entries while full ones
\* remain, or the final one of the remaining half, handed at maxWait; when
\* the timer has passed, all of the file is handed.
BatchShapes ==
    HandsBatch =>
        \/ /\ Len(bCur') = cfg.maxSize
           /\ Cardinality(hist.handed) < InFullBatches
           /\ now = 0
        \/ /\ Len(bCur') = lim.lines - InFullBatches
           /\ Cardinality(hist.handed) = InFullBatches
           /\ now = cfg.maxWait

\* C23, as stated: a file that delivers two and a half times maxSize lines
\* of one source (250 with maxSize = 100) makes the Batcher hand over exactly
\* two full batches and, after maxWait, one final batch of the remaining
\* half, and no other batch.
TwoFullOneFinalAlways == [][BatchShapes]_vars

\* C23, amended: it does so when the file's lines all reach the Batcher
\* before its timer fires.
TwoFullOneFinal ==
    /\ [][lim.atOnce => BatchShapes]_vars
    /\ []((lim.atOnce /\ now > cfg.maxWait) =>
              Cardinality(hist.handed) = lim.lines)

\* The final batch of half the size is being sent, the two full ones before it.
FinalHalfBatch ==
    /\ lim.atOnce
    /\ bPc = "sending"
    /\ Len(bCur) = TMaxSize \div 2
    /\ Cardinality(hist.handed) = 2 * TMaxSize + (TMaxSize \div 2)
    /\ now = cfg.maxWait

\* ------------------------------------------------------------ C24
\* C24: every buffer that is non-empty when the timer fires is flushed in
\* that cycle, whatever the outcome of the other sends: when flush returns
\* from a timer cycle no buffer holds entries (none can arrive meanwhile,
\* the Batcher's goroutine being inside flush).
TimerFlushesAll ==
    [][ (bMode = "timer" /\ bMode' = "none") =>
            \A s \in Services : batches'[s] = << >> ]_vars

\* ------------------------------------------------------------ C25
\* A step in which SendBatch returns an error for the batch bCur.
SendFails == bCur # << >> /\ bCur' = << >> /\ hist'.callRes = "err"

\* C25: a failed flush is non-fatal and its events are not re-queued: when
\* the Delivery Client reports an error for a batch, none of its events is
\* in a buffer or in the intake queue, the loop goes on (back to its select,
\* unless this was the flush at shutdown), and no batch ever handed over
\* holds an event that was handed over before.
FailedFlushNotRequeued ==
    [][ /\ SendFails =>
            /\ \A s \in Services :
                   SeqToSet(bCur) \cap SeqToSet(batches'[s]) = {}
            /\ SeqToSet(bCur) \cap SeqToSet(lineChan') = {}
            /\ bMode # "final" => bPc' = "select"
        /\ HandsBatch => SeqToSet(bCur') \cap hist.handed = {} ]_vars

\* After the failed send of service a's first entry the loop has gone on:
\* it has buffered the next entry of the service.
BufferingAfterFailure ==
    /\ hist.callRes = "err"
    /\ bPc = "select"
    /\ hist.handed = { Entry("f1", 1, 1) }
    /\ batches["a"] = << Entry("f1", 2, 2) >>

\* ------------------------------------------------------------ C26
\* C26: one source's flush failing does not affect the other sources: the
\* failure leaves their buffers as they are, and they are still flushed by
\* the same timer or shutdown cycle, so that the cycle in which a send
\* failed ends, like any other, with every buffer empty; after a failure
\* outside shutdown the loop is back in its select.
FailureSparesOthers ==
    [][ /\ SendFails =>
            /\ \A s \in Services \ {BatchService(bCur)} :
                   batches'[s] = batches[s]
            /\ bMode # "final" => bPc' = "select"
        /\ (SendFails /\ bMode \in {"timer", "final"} /\ bMode' = "none") =>
            \A s \in Services : batches'[s] = << >> ]_vars

\* ------------------------------------------------------------ C27
\* A step in which the Batcher calls sender.SendBatch.
CallsSender == cPc = "idle" /\ cPc' = "check"

\* C27: every batch the Batcher hands to the Delivery Client is non-empty
\* and every event in it has the batch's source identifier.
BatchWellFormed ==
    [][ CallsSender =>
            /\ bCur' # << >>
            /\ \A i \in 1..Len(bCur') :
                   ServiceOf(bCur'[i].file) = hist'.sentAs ]_vars

\* A batch of two events of service b is being sent.
SendingTwoOfB ==
    /\ bPc = "sending"
    /\ hist.sentAs = "b"
    /\ Len(bCur) = 2

\* ------------------------------------------------------------ C28
\* The events of each file come in increasing sequence-number order in q.
FileOrdered(q) ==
    \A i, j \in 1..Len(q) :
        (i < j /\ q[i].file = q[j].file) => q[i].ln < q[j].ln

\* A step in which the Batcher takes an entry from its intake queue.
TakesEntry == lineChan # << >> /\ lineChan' = Tail(lineChan)

\* C28: within one batch the event order equals the order in which the
\* events arrived in the source's buffer, and the events of one file appear
\* in increasing sequence-number order within a batch and across the
\* successive batches of the source.
EventOrderKept ==
    /\ [][ TakesEntry =>
              LET e == Head(lineChan)
                  s == ServiceOf(e.file)
              IN IF CallsSender
                   THEN bCur' = Append(batches[s], e)
                   ELSE batches'[s] = Append(batches[s], e) ]_vars
    /\ [][ (CallsSender /\ ~TakesEntry) => bCur' = batches[hist'.sentAs] ]_vars
    /\ [][ CallsSender =>
              \A i \in 1..Len(bCur') : \A h \in hist.handed :
                  h.file = bCur'[i].file => h.ln < bCur'[i].ln ]_vars
    /\ [](FileOrdered(bCur) /\ \A s \in Services : FileOrdered(batches[s]))

\* The second batch of a service with two files is being sent: the second
\* event of each file, after the first batch took the first of each.
SecondMixedBatch ==
    /\ bPc = "sending"
    /\ bCur = << Entry("f2", 2, 2), Entry("f1", 2, 2) >>
    /\ hist.handed = { Entry(f, i, i) : f \in Files, i \in 1..2 }

\* ------------------------------------------------------------ C29
\* What the return of an admitted call does to the breaker.
RecordedOnce(c) ==
    (calls.pc[c] \in {"attempt", "wait"} /\ calls'.pc[c] = "idle") =>
        IF calls'.res[c] = "err"
          THEN cbFailures' = cbFailures + 1 /\ cbLastFail' = now
          ELSE cbFailures' = 0 /\ cbLastFail' = cbLastFail

\* A step of an admitted call before its return leaves the breaker alone.
UntouchedBefore(c) ==
    ( /\ calls.pc[c] \in {"attempt", "wait"}
      /\ calls'.pc[c] \notin {calls.pc[c], "idle"} ) =>
        cbFailures' = cbFailures /\ cbLastFail' = cbLastFail

\* The gate leaves the breaker alone when it admits the call.
UntouchedByGate(c) ==
    (calls.pc[c] = "check" /\ calls'.pc[c] = "attempt") =>
        cbFailures' = cbFailures /\ cbLastFail' = cbLastFail

\* C29, as stated: an admitted SendBatch call changes the breaker exactly
\* once, after all attempts (success: counter 0; failure: counter + 1 and
\* last-failure time = now), also when several sends race on the breaker.
BreakerChangedOnce ==
    [][ \A c \in Callers :
            UntouchedByGate(c) /\ UntouchedBefore(c) /\ RecordedOnce(c) ]_vars

\* C29, amended: it does so from its admission on; the gate itself resets an
\* expired counter when it admits the call.
BreakerChangedOnceAdmitted ==
    [][ \A c \in Callers : UntouchedBefore(c) /\ RecordedOnce(c) ]_vars

\* One caller has returned from its failed call, after a retry, while the
\* other's admitted call waits between its attempts: the counter stands at one.
FailedBesideRunningCall ==
    /\ calls.pc[1] = "wait"
    /\ calls.pc[2] = "idle"
    /\ calls.res[2] = "err"
    /\ calls.attempt[2] = CMaxRetries
    /\ cbFailures = 1
    /\ cbLastFail = now

\* ------------------------------------------------------------ C30
Min(a, b) == IF a < b THEN a ELSE b

Max(a, b) == IF a > b THEN a ELSE b

\* C30: for every attempt index and every jitter in [-25%, +25%] the wait is
\* min(MaxWait, InitialWait * Multiplier^attempt), perturbed by the jitter
\* and then floored at InitialWait; it lies between 0.75 * InitialWait and
\* 1.25 * MaxWait and is never below InitialWait.
BackoffWithinBounds ==
    hist.backoff.attempt >= 0 =>
        LET b    == hist.backoff
            base == Min(cfg.retryMaxWait,
                        cfg.initialWait * Pow(cfg.multiplier, b.attempt))
        IN /\ b.wait * 4 * JitterSteps
                  = Max(cfg.initialWait * 4 * JitterSteps,
                        base * 4 * JitterSteps + base * b.jitter)
           /\ 4 * b.wait >= 3 * cfg.initialWait
           /\ 4 * b.wait <= 5 * cfg.retryMaxWait
           /\ b.wait >= cfg.initialWait

\* The first wait with the lowest jitter: 0.75 * InitialWait, floored.
FirstWaitFloored ==
    /\ hist.backoff.attempt = 0
    /\ hist.backoff.jitter = 0 - JitterSteps
    /\ hist.backoff.wait = cfg.initialWait

\* ------------------------------------------------------------ C31
\* C31: the wait between attempts is interruptible by cancellation: when the
\* context is cancelled during a wait, the select of retry.Do ends the retry
\* with no further attempt, and SendBatch returns ctx.Err().
WaitInterruptible ==
    [][ (cPc = "wait" /\ ctxDone /\ cPc' # "wait") =>
            /\ cPc' = "idle"
            /\ hist'.callTries = hist.callTries
            /\ hist'.callRes = "err"
            /\ hist'.ctxErr ]_vars

\* A call whose first attempt was answered with 500 before the cancellation
\* has ended in its wait with ctx.Err(), after that one attempt.
CancelledInWait ==
    /\ cPc = "idle"
    /\ ctxDone
    /\ hist.resp = 500
    /\ hist.callTries = 1
    /\ hist.ctxErr

\* ------------------------------------------------------------ C32
\* The last request was stored whole: every entry of it was written.
WroteBatch ==
    /\ srv.stored
    /\ srv.last.entries # << >>
    /\ srv.ret = "nil"
    /\ ~srv.dups
    /\ ~srv.others

\* The indexes of collection coll
IndexesOf(coll) == { name \in {"timestamp_desc", "hostname_timestamp",
                                "ttl_index"} : << coll, name >> \in srv.indexes }

\* C32: whenever InsertBatch has written a batch to a source's collection,
\* that collection has the descending timestamp index and the (host,
\* descending timestamp) index, and the time-to-live index if and only if
\* retention is configured.
IndexesEnsured ==
    WroteBatch =>
        LET have == IndexesOf(sanitizeCollectionName(srv.last.svc))
        IN /\ "timestamp_desc" \in have
           /\ "hostname_timestamp" \in have
           /\ ("ttl_index" \in have) <=> (cfg.ttlDays > 0)

\* ------------------------------------------------------------ C33
\* C33: once the file at a path has been replaced and the task of this
\* process has opened the new file, the in-memory checkpoint of the path
\* holds no offset of the file before the rotation: it is absent or an offset
\* within the new file.
CheckpointOfCurrentFile ==
    \A f \in Files :
        (hist.rotated[f] /\ taskPc[f] \in {"recv", "send", "done"}) =>
            wstate[f] <= fileLen[f]

\* ------------------------------------------------------------ C34
\* C34: a send in progress does not block accumulation: while SendBatch runs
\* for a flushed batch (its attempts and waits included) and the intake queue
\* holds an entry, the Batcher can take the entry into its buffer.
AccumulatesWhileSending ==
    (bPc = "sending" /\ lineChan # << >>) => ENABLED BatcherRecv

\* ------------------------------------------------------------ C35
\* The attempt in flight can end with SendBatch returning nil.
AttemptCanSucceed ==
    ENABLED (SendRequest /\ cPc' = "idle" /\ hist'.callRes = "ok")

\* C35: the cancellation itself does not abort a network send: a request in
\* flight when the context is cancelled, or made by the final flush after it,
\* can still complete with success.
SendSurvivesCancel ==
    (ctxDone /\ cPc = "attempt") => AttemptCanSucceed

\* ------------------------------------------------------------ C36
\* Everything the process runs has returned.
AllStopped ==
    /\ \A f \in Files : taskPc[f] = "done"
    /\ saverPc = "done"
    /\ wPc = "done"
    /\ bPc = "done"

\* The entries of file f in a queue
EntriesOf(q, f) == { i \in 1..Len(q) : q[i].file = f }

\* A file task that has returned stays so and puts nothing into the queue.
StoppedStaysStopped ==
    \A f \in Files :
        taskPc[f] = "done" =>
            /\ taskPc'[f] = "done"
            /\ Cardinality(EntriesOf(lineChan', f))
                   <= Cardinality(EntriesOf(lineChan, f))
            /\ tailPos'[f] = tailPos[f]

SuccessNeedsAttempt ==
    hist.callRes = "ok" => hist.callTries >= 1

\* ------------------------------------------------------------ C38
\* The entries the Batcher has taken from the intake queue: those put into
\* it that are no longer there.
Dequeued ==
    UNION { { Entry(f, i, i) : i \in 1..tailPos[f] } : f \in Files }
        \ SeqToSet(lineChan)

\* How often entry e occurs in buffer buf
Occurrences(buf, e) == Cardinality({ i \in 1..Len(buf) : buf[i] = e })

\* C38: between intake and handoff the Batcher neither loses nor duplicates:
\* every entry taken from the queue is either once in the buffer of its
\* source (and was never handed over) or in a batch handed to the sender
\* (and in no buffer); a batch handed over has no entry twice and no entry
\* of an earlier batch.
NoLossNoDuplicate ==
    /\ [](\A e \in Dequeued :
             \/ /\ Occurrences(batches[BufferKey(e)], e) = 1
                /\ \A s \in Services \ {BufferKey(e)} :
                       Occurrences(batches[s], e) = 0
                /\ e \notin hist.handed
             \/ /\ \A s \in Services : Occurrences(batches[s], e) = 0
                /\ e \in hist.handed)
    /\ [][HandsBatch =>
             /\ SeqToSet(bCur') \cap hist.handed = {}
             /\ Cardinality(SeqToSet(bCur')) = Len(bCur')
             /\ SeqToSet(bCur') \subseteq Dequeued']_vars

\* Every line of both files was taken from the queue; some entries were
\* handed over and one is still buffered.
TakenHandedAndBuffered ==
    /\ lineChan = << >>
    /\ \A f \in Files : tailPos[f] = lim.lines
    /\ bPc = "select"
    /\ hist.handed # {}
    /\ \E s \in Services : Len(batches[s]) = 1

SpacedNeverOpen ==
    /\ [][ (cPc = "check" /\ cPc' # "check"
               /\ now - cbLastFail >= cfg.timeout) => cbFailures' = 0 ]_vars
    /\ [](~hist.callOpen)

\* More calls than the threshold have failed in a row, and the next one is
\* admitted with the counter back at 0.
AdmittedAfterFailures ==
    /\ cPc = "attempt"
    /\ hist.failedRun > cfg.threshold
    /\ ~hist.callOpen
    /\ cbFailures = 0

====
